---------------------------- MODULE Spec2Model ----------------------------
(***************************************************************************)
(* Widget composition in raui: the four paper containers of raui-material  *)
(* (grid_paper.rs, vertical_paper.rs) and the app component of the         *)
(* hello-world demo (app.rs).                                              *)
(*                                                                         *)
(* Every component is a pure function WidgetContext -> WidgetNode.  The    *)
(* state machine draws one WidgetContext in Init and lets a composition    *)
(* driver apply each component once to it; results[c] keeps what the       *)
(* component returned.                                                     *)
(*                                                                         *)
(* A widget node is the record                                             *)
(*   [type_name, key, idref, props, listed_slots]                          *)
(* Props is a map keyed by the type of the stored value; every stored      *)
(* value is a record.  Scalars (f32) appear only with the values 0.0, 1.0  *)
(* and 16.0 and are written as the integers 0, 1 and 16.                   *)
(***************************************************************************)
EXTENDS Integers, Sequences, FiniteSets, TLC

VARIABLES context, results

vars == <<context, results>>

(* ------------------------------ bounds -------------------------------- *)

\* longest listed slot sequence handed to a component
MaxSlots == 2

(* --------------------------- raui_core types --------------------------- *)

\* Option<WidgetRef>::None
None == "none"

IdRefs == {None, "ref1"}

Keys == {"a", "b"}

\* f32 literal on app.rs:13
Separation == 16

\* Default::default() of FlexBoxItemLayout (the `..Default::default()` of app.rs:10)
FlexBoxItemLayoutDefault == [grow |-> 1, shrink |-> 1, fill |-> 1, align |-> 0]

\* Default::default() of VerticalBoxProps (the `..Default::default()` of app.rs:14)
VerticalBoxPropsDefault == [separation |-> 0, reversed |-> FALSE]

\* the unit struct NavJumpLooped stored as a props entry
NavJumpLooped == [marker |-> TRUE]

\* Props::default(): no entry
EmptyProps == [t \in {} |-> [marker |-> TRUE]]

\* Props::new(data): one entry, keyed by the type of data
PropsNew(type, data) == [t \in {type} |-> data]

\* Props::with(self, data): insert, or replace the whole entry of that type
PropsWith(p, type, data) ==
    [t \in (DOMAIN p) \cup {type} |-> IF t = type THEN data ELSE p[t]]

\* what widget!{ (#{key} | {idref} type_name: {props} [ ... ]) } evaluates to
WidgetComponent(type_name, key, idref, props, listed_slots) ==
    [type_name    |-> type_name,
     key          |-> key,
     idref        |-> idref,
     props        |-> props,
     listed_slots |-> listed_slots]

\* WidgetNode::remap_props(f) with f = |props| props.with(data)
remap_props(node, type, data) ==
    [node EXCEPT !.props = PropsWith(node.props, type, data)]

\* a slot lookup that always blames the first requested name
FirstMissing_first(named_slots, names) ==
    IF \E i \in 1..Len(names) : names[i] \notin DOMAIN named_slots
    THEN names[1]
    ELSE None

\* unpack_named_slots!(named_slots => { names }): the first requested name
\* that the map lacks, or None when all are present
FirstMissing(named_slots, names) ==
    IF \E i \in 1..Len(names) : names[i] \notin DOMAIN named_slots
    THEN names[CHOOSE i \in 1..Len(names) :
                 /\ names[i] \notin DOMAIN named_slots
                 /\ \A j \in 1..(i - 1) : names[j] \in DOMAIN named_slots]
    ELSE None

(* ------------------------- raui-material: papers ----------------------- *)

\* nav_grid_paper that forgets the identity reference
nav_grid_paper_no_idref(ctx) ==
    WidgetComponent("paper", ctx.key, None, ctx.props,
        << WidgetComponent("nav_grid_box", "grid", None, ctx.props,
                           ctx.listed_slots) >>)

nav_grid_paper(ctx) ==
    WidgetComponent("paper", ctx.key, ctx.idref, ctx.props,
        << WidgetComponent("nav_grid_box", "grid", None, ctx.props,
                           ctx.listed_slots) >>)

\* grid_paper that builds the navigable box
grid_paper_nav_box(ctx) ==
    WidgetComponent("paper", ctx.key, ctx.idref, ctx.props,
        << WidgetComponent("nav_grid_box", "grid", None, ctx.props,
                           ctx.listed_slots) >>)

\* grid_paper that forwards the listed slots twice
grid_paper_twice(ctx) ==
    WidgetComponent("paper", ctx.key, ctx.idref, ctx.props,
        << WidgetComponent("grid_box", "grid", None, ctx.props,
                           ctx.listed_slots \o ctx.listed_slots) >>)

grid_paper(ctx) ==
    WidgetComponent("paper", ctx.key, ctx.idref, ctx.props,
        << WidgetComponent("grid_box", "grid", None, ctx.props,
                           ctx.listed_slots) >>)

\* nav_vertical_paper that puts key and identity on the inner box
nav_vertical_paper_inner_id(ctx) ==
    WidgetComponent("paper", "vertical", None, ctx.props,
        << WidgetComponent("nav_vertical_box", ctx.key, ctx.idref, ctx.props,
                           ctx.listed_slots) >>)

nav_vertical_paper(ctx) ==
    WidgetComponent("paper", ctx.key, ctx.idref, ctx.props,
        << WidgetComponent("nav_vertical_box", "vertical", None, ctx.props,
                           ctx.listed_slots) >>)

\* vertical_paper that forwards the listed slots in reverse order
vertical_paper_reversed(ctx) ==
    WidgetComponent("paper", ctx.key, ctx.idref, ctx.props,
        << WidgetComponent("vertical_box", "vertical", None, ctx.props,
              [i \in 1..Len(ctx.listed_slots) |->
                  ctx.listed_slots[Len(ctx.listed_slots) + 1 - i]]) >>)

\* vertical_paper that gives the inner box fresh properties
vertical_paper_inner_default(ctx) ==
    WidgetComponent("paper", ctx.key, ctx.idref, ctx.props,
        << WidgetComponent("vertical_box", "vertical", None, EmptyProps,
                           ctx.listed_slots) >>)

vertical_paper(ctx) ==
    WidgetComponent("paper", ctx.key, ctx.idref, ctx.props,
        << WidgetComponent("vertical_box", "vertical", None, ctx.props,
                           ctx.listed_slots) >>)

(* --------------------------- hello-world: app -------------------------- *)

\* the title layout with grow left at its default
TitleLayout_grow_default == [FlexBoxItemLayoutDefault EXCEPT !.shrink = 0]

\* FlexBoxItemLayout { grow: 0.0, shrink: 0.0, ..Default::default() }
TitleLayout == [FlexBoxItemLayoutDefault EXCEPT !.grow = 0, !.shrink = 0]

\* Props::new(VerticalBoxProps { separation: 16.0, .. }).with(NavJumpLooped)
AppProps ==
    PropsWith(PropsNew("VerticalBoxProps",
                       [VerticalBoxPropsDefault EXCEPT !.separation = Separation]),
              "NavJumpLooped", NavJumpLooped)

\* the outcome of a component call
Ok(node) == [status |-> "ok", node |-> node]

MissingSlotError(name) ==
    [status |-> "error", error |-> "MissingSlotError", slot |-> name]

\* app that emits content before title
app_swapped(ctx) ==
    LET missing == FirstMissing(ctx.named_slots, <<"title", "content">>)
    IN  IF missing # None
        THEN MissingSlotError(missing)
        ELSE Ok(WidgetComponent("nav_vertical_box", ctx.key, None, AppProps,
                   << ctx.named_slots["content"],
                      remap_props(ctx.named_slots["title"],
                                  "FlexBoxItemLayout", TitleLayout) >>))

\* app that overrides grow and shrink inside the title's own layout entry
app_merge(ctx) ==
    LET missing == FirstMissing(ctx.named_slots, <<"title", "content">>)
        old == ctx.named_slots["title"].props
        layout == IF "FlexBoxItemLayout" \in DOMAIN old
                  THEN [old["FlexBoxItemLayout"] EXCEPT !.grow = 0, !.shrink = 0]
                  ELSE TitleLayout
    IN  IF missing # None
        THEN MissingSlotError(missing)
        ELSE Ok(WidgetComponent("nav_vertical_box", ctx.key, None, AppProps,
                   << remap_props(ctx.named_slots["title"],
                                  "FlexBoxItemLayout", layout),
                      ctx.named_slots["content"] >>))

app(ctx) ==
    LET missing == FirstMissing(ctx.named_slots, <<"title", "content">>)
    IN  IF missing # None
        THEN MissingSlotError(missing)
        ELSE LET title   == remap_props(ctx.named_slots["title"],
                                        "FlexBoxItemLayout", TitleLayout)
                 content == ctx.named_slots["content"]
             IN  Ok(WidgetComponent("nav_vertical_box", ctx.key, None,
                                    AppProps, <<title, content>>))

(* ------------------------------ inputs --------------------------------- *)

\* properties a caller puts on a child or hands down to a component
InputProps ==
    { EmptyProps,
      PropsNew("FlexBoxItemLayout",
               [grow |-> 1, shrink |-> 1, fill |-> 0, align |-> 1]),
      PropsWith(PropsNew("FlexBoxItemLayout",
                         [grow |-> 0, shrink |-> 1, fill |-> 1, align |-> 0]),
                "TextBoxProps", [text |-> "hello"]) }

Leaves ==
    { WidgetComponent("text_box", k, None, p, <<>>) :
        k \in Keys, p \in { EmptyProps,
                            PropsNew("FlexBoxItemLayout",
                                     [grow |-> 1, shrink |-> 1,
                                      fill |-> 0, align |-> 1]) } }

LeafA == WidgetComponent("text_box", "a", None, EmptyProps, <<>>)
LeafB == WidgetComponent("text_box", "b", None, EmptyProps, <<>>)

\* children that have children of their own
Boxes ==
    { WidgetComponent("vertical_box", "a",
                      None,
                      PropsWith(PropsNew("FlexBoxItemLayout",
                                         [grow |-> 1, shrink |-> 0,
                                          fill |-> 0, align |-> 1]),
                                "TextBoxProps", [text |-> "hello"]),
                      <<LeafA, LeafB>>),
      WidgetComponent("vertical_box", "b", None, EmptyProps, <<LeafA, LeafA>>) }

Nodes == Leaves \cup Boxes

SeqsUpTo(S, n) == UNION { [1..m -> S] : m \in 0..n }

NoNamedSlots == [n \in {} |-> LeafA]

SlotNames == {"title", "content"}

NamedSlotMaps == UNION { [D -> Nodes] : D \in SUBSET SlotNames }

WidgetContext(idref, key, props, named_slots, listed_slots) ==
    [idref        |-> idref,
     key          |-> key,
     props        |-> props,
     named_slots  |-> named_slots,
     listed_slots |-> listed_slots]

\* a context carries either listed or named slots
Contexts ==
    { WidgetContext(i, k, p, NoNamedSlots, l) :
        i \in IdRefs, k \in Keys, p \in InputProps, l \in SeqsUpTo(Nodes, MaxSlots) }
    \cup
    { WidgetContext(None, k, EmptyProps, n, <<>>) :
        k \in Keys, n \in NamedSlotMaps }

(* --------------------------- state machine ----------------------------- *)

PaperComponents ==
    {"nav_grid_paper", "grid_paper", "nav_vertical_paper", "vertical_paper"}

Components == PaperComponents \cup {"app"}

Pending == [status |-> "pending"]

Init ==
    /\ context \in Contexts
    /\ results = [c \in Components |-> Pending]

Call(c, outcome) ==
    /\ results[c] = Pending
    /\ results' = [results EXCEPT ![c] = outcome]
    /\ UNCHANGED context

NavGridPaper == Call("nav_grid_paper", Ok(nav_grid_paper(context)))

GridPaper == Call("grid_paper", Ok(grid_paper(context)))

NavVerticalPaper == Call("nav_vertical_paper", Ok(nav_vertical_paper(context)))

VerticalPaper == Call("vertical_paper", Ok(vertical_paper(context)))

App == Call("app", app(context))

Next ==
    \/ NavGridPaper
    \/ GridPaper
    \/ NavVerticalPaper
    \/ VerticalPaper
    \/ App

Spec == Init /\ [][Next]_vars

(* ------------------------------ properties ----------------------------- *)

Done(c) == results[c].status = "ok"

Outer(c) == results[c].node

Inner(c) == results[c].node.listed_slots[1]

AllPapersDone == \A c \in PaperComponents : Done(c)

\* the layout box each paper variant is expected to select
ExpectedBox(c) ==
    CASE c = "grid_paper"         -> "grid_box"
      [] c = "nav_grid_paper"     -> "nav_grid_box"
      [] c = "vertical_paper"     -> "vertical_box"
      [] c = "nav_vertical_paper" -> "nav_vertical_box"

\* the fixed sub-key each paper variant is expected to give its layout box
ExpectedSubKey(c) ==
    IF c \in {"grid_paper", "nav_grid_paper"} THEN "grid" ELSE "vertical"

\* C1: every paper component returns, for every context, a node of kind
\* paper with exactly one child, and that child is the layout box of the
\* variant: grid_box, nav_grid_box, vertical_box or nav_vertical_box.
C1_PaperShape ==
    \A c \in PaperComponents :
        results[c] # Pending =>
            /\ Done(c)
            /\ Outer(c).type_name = "paper"
            /\ Len(Outer(c).listed_slots) = 1
            /\ Inner(c).type_name = ExpectedBox(c)

C1_Witness ==
    /\ AllPapersDone
    /\ Len(context.listed_slots) = 1
    /\ context.idref = None

\* C2: the children of the inner layout node are exactly the listed slot of
\* the context: same length, same elements, same order; an empty listed slot
\* gives an inner node without children and no error.
C2_ListedSlotsForwarded ==
    \A c \in PaperComponents :
        results[c] # Pending =>
            /\ Done(c)
            /\ Len(Inner(c).listed_slots) = Len(context.listed_slots)
            /\ \A i \in 1..Len(context.listed_slots) :
                   Inner(c).listed_slots[i] = context.listed_slots[i]

C2_Witness ==
    /\ AllPapersDone
    /\ Len(context.listed_slots) >= 2
    /\ context.listed_slots[1] # context.listed_slots[2]

\* C3: key and identity reference of the context sit on the outer paper
\* node; the inner layout node has the fixed sub-key ("grid" or "vertical")
\* and no identity reference.
C3_IdentityOnOuter ==
    \A c \in PaperComponents :
        Done(c) =>
            /\ Outer(c).key = context.key
            /\ Outer(c).idref = context.idref
            /\ Inner(c).key = ExpectedSubKey(c)
            /\ Inner(c).idref = None

C3_Witness ==
    /\ AllPapersDone
    /\ context.idref # None
    /\ context.key \notin {"grid", "vertical"}

HasBothSlots == SlotNames \subseteq DOMAIN context.named_slots

\* C4: the title child that app emits has grow = 0 and shrink = 0 whatever
\* grow and shrink the input title carried.
C4_TitleRigid ==
    Done("app") =>
        /\ "FlexBoxItemLayout" \in DOMAIN Outer("app").listed_slots[1].props
        /\ Outer("app").listed_slots[1].props["FlexBoxItemLayout"].grow = 0
        /\ Outer("app").listed_slots[1].props["FlexBoxItemLayout"].shrink = 0

C4_Witness ==
    /\ Done("app")
    /\ HasBothSlots
    /\ "FlexBoxItemLayout" \in DOMAIN context.named_slots["title"].props
    /\ context.named_slots["title"].props["FlexBoxItemLayout"].grow = 1
    /\ context.named_slots["title"].props["FlexBoxItemLayout"].shrink = 1

\* C5: when title or content is missing from the context, app fails with a
\* MissingSlotError that names a missing slot and builds no tree.
C5_MissingSlotFails ==
    (results["app"] # Pending /\ ~HasBothSlots) =>
        /\ results["app"].status = "error"
        /\ results["app"].error = "MissingSlotError"
        /\ results["app"].slot \in SlotNames \ DOMAIN context.named_slots

C5_Witness ==
    /\ results["app"].status = "error"
    /\ DOMAIN context.named_slots = {"title"}
    /\ results["app"].slot = "content"

\* C6: with title H and content B, app returns one nav_vertical_box node
\* with the key of the context, with the properties separation = 16 and the
\* NavJumpLooped marker, and with exactly two children: H remapped, then B.
C6_AppTree ==
    (results["app"] # Pending /\ HasBothSlots) =>
        /\ Done("app")
        /\ Outer("app").type_name = "nav_vertical_box"
        /\ Outer("app").key = context.key
        /\ DOMAIN Outer("app").props = {"VerticalBoxProps", "NavJumpLooped"}
        /\ Outer("app").props["VerticalBoxProps"].separation = 16
        /\ Len(Outer("app").listed_slots) = 2
        /\ Outer("app").listed_slots[1].type_name
               = context.named_slots["title"].type_name
        /\ Outer("app").listed_slots[1].key = context.named_slots["title"].key
        /\ Outer("app").listed_slots[1].idref
               = context.named_slots["title"].idref
        /\ Outer("app").listed_slots[1].listed_slots
               = context.named_slots["title"].listed_slots
        /\ Outer("app").listed_slots[1].props["FlexBoxItemLayout"].grow = 0
        /\ Outer("app").listed_slots[1].props["FlexBoxItemLayout"].shrink = 0
        /\ Outer("app").listed_slots[2] = context.named_slots["content"]

C6_Witness ==
    /\ Done("app")
    /\ HasBothSlots
    /\ context.named_slots["title"] # context.named_slots["content"]
    /\ context.named_slots["title"].listed_slots # <<>>

KeysDistinct(children) ==
    \A i, j \in 1..Len(children) : i # j => children[i].key # children[j].key

RECURSIVE SiblingKeysUnique(_)
SiblingKeysUnique(node) ==
    /\ KeysDistinct(node.listed_slots)
    /\ \A i \in 1..Len(node.listed_slots) :
           SiblingKeysUnique(node.listed_slots[i])

\* the slots of the context are keyed uniquely, at every level
InputKeysUnique ==
    /\ KeysDistinct(context.listed_slots)
    /\ \A i \in 1..Len(context.listed_slots) :
           SiblingKeysUnique(context.listed_slots[i])
    /\ \A n \in DOMAIN context.named_slots :
           SiblingKeysUnique(context.named_slots[n])
    /\ \A m, n \in DOMAIN context.named_slots :
           m # n => context.named_slots[m].key # context.named_slots[n].key

\* C7 as stated: in every tree app or a paper component produces, for every
\* context, no node has two children with the same key.
C7_Original ==
    \A c \in Components : Done(c) => SiblingKeysUnique(Outer(c))

\* C7 amended: when the slots handed in by the caller are keyed uniquely
\* among their siblings at every level, no node of the tree produced by app
\* or by a paper component has two children with the same key.
C7_KeysUniqueIfInputUnique ==
    \A c \in Components :
        (Done(c) /\ InputKeysUnique) => SiblingKeysUnique(Outer(c))

C7_Witness ==
    /\ \A c \in Components : Done(c)
    /\ InputKeysUnique
    /\ HasBothSlots

\* C8: outer paper node and inner layout node both carry exactly the
\* properties of the context.
C8_PropsPassedThrough ==
    \A c \in PaperComponents :
        Done(c) =>
            /\ Outer(c).props = context.props
            /\ Inner(c).props = context.props

C8_Witness ==
    /\ AllPapersDone
    /\ DOMAIN context.props = {"FlexBoxItemLayout", "TextBoxProps"}

SameButInnerKind(nav, plain) ==
    /\ nav.type_name = plain.type_name
    /\ nav.key = plain.key
    /\ nav.idref = plain.idref
    /\ nav.props = plain.props
    /\ Len(nav.listed_slots) = Len(plain.listed_slots)
    /\ nav.listed_slots[1].key = plain.listed_slots[1].key
    /\ nav.listed_slots[1].idref = plain.listed_slots[1].idref
    /\ nav.listed_slots[1].props = plain.listed_slots[1].props
    /\ nav.listed_slots[1].listed_slots = plain.listed_slots[1].listed_slots

\* C9: on the same context a navigable paper and its plain counterpart
\* return trees that agree on everything except the kind of the inner box.
C9_NavDiffersOnlyInKind ==
    /\ (Done("nav_grid_paper") /\ Done("grid_paper")) =>
           /\ SameButInnerKind(Outer("nav_grid_paper"), Outer("grid_paper"))
           /\ Inner("nav_grid_paper").type_name # Inner("grid_paper").type_name
    /\ (Done("nav_vertical_paper") /\ Done("vertical_paper")) =>
           /\ SameButInnerKind(Outer("nav_vertical_paper"),
                               Outer("vertical_paper"))
           /\ Inner("nav_vertical_paper").type_name
                  # Inner("vertical_paper").type_name

C9_Witness ==
    /\ AllPapersDone
    /\ context.idref # None
    /\ context.props # EmptyProps
    /\ Len(context.listed_slots) = MaxSlots

\* C10: the remap replaces the whole FlexBoxItemLayout entry of the title by
\* grow = 0, shrink = 0 and defaults elsewhere; entries of other types stay
\* as they were; the properties of content are not touched.
C10_RemapReplacesLayout ==
    Done("app") =>
        LET H  == context.named_slots["title"]
            H2 == Outer("app").listed_slots[1]
        IN  /\ DOMAIN H2.props = (DOMAIN H.props) \cup {"FlexBoxItemLayout"}
            /\ H2.props["FlexBoxItemLayout"]
                   = [grow |-> 0, shrink |-> 0,
                      fill |-> FlexBoxItemLayoutDefault.fill,
                      align |-> FlexBoxItemLayoutDefault.align]
            /\ \A t \in (DOMAIN H.props) \ {"FlexBoxItemLayout"} :
                   H2.props[t] = H.props[t]
            /\ Outer("app").listed_slots[2].props
                   = context.named_slots["content"].props

C10_Witness ==
    /\ Done("app")
    /\ HasBothSlots
    /\ DOMAIN context.named_slots["title"].props
           = {"FlexBoxItemLayout", "TextBoxProps"}
    /\ context.named_slots["title"].props["FlexBoxItemLayout"].fill
           # FlexBoxItemLayoutDefault.fill
    /\ context.named_slots["content"].props # EmptyProps

=============================================================================
